---- MODULE Spec2Model ----
(***************************************************************************)
(* A model of Data/measure.py: the background subtractor comp_within, the  *)
(* consensus aggregator compare_between and the driver under __main__.     *)
(*                                                                         *)
(* A call-set (a DataFrame) is a sequence of records [CHROM, POS]; row k   *)
(* of the model is the row at iloc position k-1.  The two functions are    *)
(* modelled loop by loop; each has a specification of its own that calls   *)
(* it on every input within the bounds (SpecWithin, SpecBetween), and      *)
(* SpecMain runs the driver, which calls both.                             *)
(***************************************************************************)
EXTENDS Integers, Sequences, FiniteSets, TLC

VARIABLES
    \* ---- comp_within: parameters, locals, position
    wpc, mutant_df, control_df, dist, c, i, j, matched, indices_to_drop, w_ret,
    \* ---- compare_between: parameters, locals, position
    bpc, all_dict, distance, agreement, curr, li, consensus, consensus_df,
    \* ---- __main__: globals, position
    mpc, cli, files, methods, method, N2_df, GE_df, filtered_within

wvars == <<wpc, mutant_df, control_df, dist, c, i, j, matched, indices_to_drop, w_ret>>
bvars == <<bpc, all_dict, curr, li, consensus, consensus_df>>
pvars == <<distance, agreement>>
mvars == <<mpc, cli, files, methods, method, N2_df, GE_df, filtered_within>>
vars == <<wvars, bvars, pvars, mvars>>

----------------------------------------------------------------------------
(* Bounds and input domains *)

\* the largest number of records of one input of compare_between (all its
\* call-sets together), and of one input of comp_within (treatment and control)
MaxRecords == 3
MaxWithinRecords == 4

Chroms == {"chr1", "chr2"}
Positions == {100, 105, 500}
Records == [CHROM : Chroms, POS : Positions]

\* tolerances tried for comp_within, and distance / agreement for the rest
WithinDists == {-1, 0, 1, 2, 5}
Distances == {-1, 0, 10}
Agreements == {0, 1, 2, 3}

MethodNames == <<"A", "B", "C">>

SeqsUpTo(S, n) == UNION {[1..k -> S] : k \in 0..n}

----------------------------------------------------------------------------
(* comp_within *)

\* Series.unique(): the values in order of first appearance
RECURSIVE UniqueFrom(_, _)
UniqueFrom(s, acc) ==
    IF s = <<>> THEN acc
    ELSE IF \E k \in 1..Len(acc) : acc[k] = Head(s).CHROM
         THEN UniqueFrom(Tail(s), acc)
         ELSE UniqueFrom(Tail(s), Append(acc, Head(s).CHROM))

Unique(df) == UniqueFrom(df, <<>>)

\* control_df[control_df['#CHROM'] == chrom]
ChromFilter(df, chrom) == SelectSeq(df, LAMBDA r : r.CHROM = chrom)

\* the loop variable of line 25 while the loop body runs
chrom == Unique(mutant_df)[c]

control_df_chrom == ChromFilter(control_df, chrom)

\* range(0, n, step) with step = 0 raises ValueError
RangeRaises(step) == step = 0

\* range() taken to include its end
InRangeInclusive(x, n, step) == IF step > 0 THEN x <= n ELSE x >= n

\* whether x is produced by range(0, n, step), x being 0 + k*step
InRange(x, n, step) == IF step > 0 THEN x < n ELSE x > n

\* pos - dist <= pos_2 <= pos + dist
WithinTest(pos, pos_2, d) == pos - d <= pos_2 /\ pos_2 <= pos + d

\* the return statement with the drop list applied (df.drop(indices_to_drop))
WithinReturnDropped(df, drops) ==
    LET kept == {k \in 1..Len(df) : \A x \in 1..Len(drops) : drops[x] # k - 1}
        RECURSIVE Keep(_)
        Keep(k) == IF k > Len(df) THEN <<>>
                   ELSE IF k \in kept THEN <<df[k]>> \o Keep(k + 1)
                   ELSE Keep(k + 1)
    IN  Keep(1)

\* the value of the return statement, given the drop list built by the loops
WithinReturn(df, drops) == df

\* line 25, and the header of the loop of line 28
ForChrom ==
    /\ wpc = "for_chrom"
    /\ IF c > Len(Unique(mutant_df))
       THEN /\ wpc' = "returned"
            /\ w_ret' = WithinReturn(mutant_df, indices_to_drop)
            /\ UNCHANGED i
       ELSE IF RangeRaises(dist)
       THEN /\ wpc' = "ValueError"
            /\ UNCHANGED <<w_ret, i>>
       ELSE /\ wpc' = "for_row"
            /\ i' = 0
            /\ UNCHANGED w_ret
    /\ UNCHANGED <<mutant_df, control_df, dist, c, j, matched, indices_to_drop>>

\* lines 28-32: the next sampled row, or the end of this chromosome's pass
ForRow ==
    /\ wpc = "for_row"
    /\ IF InRange(i, Len(mutant_df), dist)
       THEN IF i + 1 \in 1..Len(mutant_df)
            THEN /\ matched' = FALSE
                 /\ j' = 0
                 /\ wpc' = "while"
                 /\ UNCHANGED c
            ELSE /\ wpc' = "IndexError"
                 /\ UNCHANGED <<matched, j, c>>
       ELSE /\ c' = c + 1
            /\ wpc' = "for_chrom"
            /\ UNCHANGED <<matched, j>>
    /\ UNCHANGED <<mutant_df, control_df, dist, i, indices_to_drop, w_ret>>

\* lines 33-40: one turn of the while loop, or its exit to the next row
While ==
    /\ wpc = "while"
    /\ IF j < Len(control_df_chrom) /\ matched = FALSE
       THEN /\ IF WithinTest(mutant_df[i + 1].POS, control_df_chrom[j + 1].POS, dist)
               THEN /\ indices_to_drop' = Append(indices_to_drop, i)
                    /\ matched' = TRUE
               ELSE UNCHANGED <<indices_to_drop, matched>>
            /\ j' = j + 1
            /\ UNCHANGED <<wpc, i>>
       ELSE /\ i' = i + dist
            /\ wpc' = "for_row"
            /\ UNCHANGED <<indices_to_drop, matched, j>>
    /\ UNCHANGED <<mutant_df, control_df, dist, c, w_ret>>

\* the state of a call comp_within(m, ctl, d) on entry
WithinEntry(m, ctl, d) ==
    /\ wpc' = "for_chrom"
    /\ mutant_df' = m
    /\ control_df' = ctl
    /\ dist' = d
    /\ c' = 1
    /\ i' = 0
    /\ j' = 0
    /\ matched' = FALSE
    /\ indices_to_drop' = <<>>
    /\ w_ret' = <<>>

WithinIdle ==
    /\ wpc = "idle"
    /\ mutant_df = <<>>
    /\ control_df = <<>>
    /\ dist = 0
    /\ c = 1
    /\ i = 0
    /\ j = 0
    /\ matched = FALSE
    /\ indices_to_drop = <<>>
    /\ w_ret = <<>>

BetweenIdle ==
    /\ bpc = "idle"
    /\ all_dict = <<>>
    /\ curr = 1
    /\ li = 0
    /\ consensus = <<>>
    /\ consensus_df = <<>>

MainIdle ==
    /\ mpc = "idle"
    /\ cli = FALSE
    /\ files = {}
    /\ methods = {}
    /\ method = ""
    /\ N2_df = [kind |-> "unbound", method |-> "", df |-> <<>>]
    /\ GE_df = [kind |-> "unbound", method |-> "", df |-> <<>>]
    /\ filtered_within = <<>>

----------------------------------------------------------------------------
(* compare_between *)

\* all_dict is a dict in insertion order: a sequence of [method, df] with
\* distinct methods.  pos_col_dict[all_dict[k].method] = k (lines 65-70).
\* A row (match_row, lines 80, 103, 109, 114) is [CHROM, cols, AVERAGE] with
\* cols[k] the cell of column k; the cell -1 of line 80 is written NoMatch,
\* the empty tuple, which line 103 never stores (line 97).
NoMatch == <<>>

RECURSIVE Sum(_)
Sum(s) == IF s = <<>> THEN 0 ELSE Head(s) + Sum(Tail(s))

\* line 93: the window test on one record
InWindow(p, pos, d) == p >= pos - d /\ p <= pos + d

\* lines 89-94: the records of df on chrom within the window around pos
Matches(df, chr, pos, d) ==
    SelectSeq(df, LAMBDA r : r.CHROM = chr /\ InWindow(r.POS, pos, d))

\* matches['POS'].tolist()
PosList(m) == [k \in 1..Len(m) |-> m[k].POS]

\* the counter raised by the number of matched records
NextCountPerRecord(count, m) == count + Len(m)

\* line 105
NextCount(count, m) == count + 1

\* line 104
NextAverage(average, m) == average + Sum(PosList(m))

\* lines 85-105: the loop over alt_method, from column k on
RECURSIVE ScanAlt(_, _, _, _, _, _)
ScanAlt(dict, chr, pos, d, k, acc) ==
    IF k > Len(dict) THEN acc
    ELSE LET m == Matches(dict[k].df, chr, pos, d)
         IN  ScanAlt(dict, chr, pos, d, k + 1,
                 IF m # <<>>
                 THEN [cols |-> [acc.cols EXCEPT ![k] = PosList(m)],
                       average |-> NextAverage(acc.average, m),
                       count |-> NextCount(acc.count, m)]
                 ELSE acc)

\* lines 80-105 for one leader record
Evaluate(dict, chr, pos, d) ==
    ScanAlt(dict, chr, pos, d, 1,
            [cols |-> [k \in 1..Len(dict) |-> NoMatch], average |-> 0, count |-> 0])

\* round(average / count) in place of int(average / count)
IntAverageRounded(average, count) == (2 * average + count) \div (2 * count)

\* lines 113-114: int(average / count), count # 0; int() truncates toward zero
IntAverage(average, count) ==
    IF average >= 0 THEN average \div count ELSE -((-average) \div count)

\* DataFrame.drop_duplicates(): the first of each group of equal rows is kept
RECURSIVE DropFrom(_, _)
DropFrom(rows, acc) ==
    IF rows = <<>> THEN acc
    ELSE IF \E k \in 1..Len(acc) : acc[k] = Head(rows)
         THEN DropFrom(Tail(rows), acc)
         ELSE DropFrom(Tail(rows), Append(acc, Head(rows)))

\* the table without drop_duplicates()
DropDuplicatesNone(rows) == rows

DropDuplicates(rows) == DropFrom(rows, <<>>)

\* the order of the chromosome labels as strings
ChromRank(chr) == CASE chr = "chr1" -> 1 [] chr = "chr2" -> 2

\* sort_values(by='CHROM'): ascending; rows of one chromosome keep their order
\* (numpy sorts fewer than 17 elements by insertion)
RECURSIVE Insert(_, _)
Insert(sorted, row) ==
    IF sorted = <<>> THEN <<row>>
    ELSE IF ChromRank(sorted[Len(sorted)].CHROM) <= ChromRank(row.CHROM)
         THEN Append(sorted, row)
         ELSE Append(Insert(SubSeq(sorted, 1, Len(sorted) - 1), row), sorted[Len(sorted)])

RECURSIVE SortFrom(_, _)
SortFrom(rows, acc) ==
    IF rows = <<>> THEN acc ELSE SortFrom(Tail(rows), Insert(acc, Head(rows)))

SortByChrom(rows) == SortFrom(rows, <<>>)

\* the leader call-set of line 76 while the loop of line 77 runs
leader == all_dict[curr].df

\* lines 73-76: the next method, or the end of the loop
ForMethod ==
    /\ bpc = "for_method"
    /\ IF curr <= Len(all_dict)
       THEN /\ li' = 0
            /\ bpc' = "for_leader"
       ELSE /\ bpc' = "finish"
            /\ UNCHANGED li
    /\ UNCHANGED <<all_dict, curr, consensus, consensus_df>>

\* lines 77-114: one leader record evaluated, or the end of this leader
ForLeader ==
    /\ bpc = "for_leader"
    /\ IF li < Len(leader)
       THEN LET r == leader[li + 1]
                e == Evaluate(all_dict, r.CHROM, r.POS, distance)
            IN  IF e.count >= agreement
                THEN IF e.count = 0
                     THEN /\ consensus' = Append(consensus,
                                 [CHROM |-> r.CHROM, cols |-> e.cols, AVERAGE |-> -1])
                          /\ bpc' = "ZeroDivisionError"
                          /\ UNCHANGED <<li, curr>>
                     ELSE /\ consensus' = Append(consensus,
                                 [CHROM |-> r.CHROM, cols |-> e.cols,
                                  AVERAGE |-> IntAverage(e.average, e.count)])
                          /\ li' = li + 1
                          /\ UNCHANGED <<bpc, curr>>
                ELSE /\ li' = li + 1
                     /\ UNCHANGED <<consensus, bpc, curr>>
       ELSE /\ curr' = curr + 1
            /\ bpc' = "for_method"
            /\ UNCHANGED <<consensus, li>>
    /\ UNCHANGED <<all_dict, consensus_df>>

\* lines 117-124
Finish ==
    /\ bpc = "finish"
    /\ consensus_df' = SortByChrom(DropDuplicates(consensus))
    /\ bpc' = "returned"
    /\ UNCHANGED <<all_dict, curr, li, consensus>>

\* the state of a call compare_between(dict, distance, agreement) on entry
BetweenEntry(dict) ==
    /\ bpc' = "for_method"
    /\ all_dict' = dict
    /\ curr' = 1
    /\ li' = 0
    /\ consensus' = <<>>
    /\ consensus_df' = <<>>

\* the call-sets of n methods cut out of the records s: owner[k] is the method
\* of record k
DictOf(s, n, owner) ==
    [k \in 1..n |->
        [method |-> MethodNames[k],
         df |-> LET idx == {x \in 1..Len(s) : owner[x] = k}
                    RECURSIVE Pick(_)
                    Pick(x) == IF x > Len(s) THEN <<>>
                               ELSE IF x \in idx THEN <<s[x]>> \o Pick(x + 1)
                               ELSE Pick(x + 1)
                IN  Pick(1)]]

\* compare_between called on every mapping, distance and agreement within the bounds
InitBetween ==
    /\ \E s \in SeqsUpTo(Records, MaxRecords), n \in 0..Len(MethodNames) :
        \E owner \in [1..Len(s) -> 1..n] :
            /\ \A x, y \in 1..Len(s) : x <= y => owner[x] <= owner[y]
            /\ all_dict = DictOf(s, n, owner)
    /\ distance \in Distances
    /\ agreement \in Agreements
    /\ bpc = "for_method"
    /\ curr = 1
    /\ li = 0
    /\ consensus = <<>>
    /\ consensus_df = <<>>
    /\ WithinIdle
    /\ MainIdle

NextBetween ==
    \/ ForMethod /\ UNCHANGED <<wvars, pvars, mvars>>
    \/ ForLeader /\ UNCHANGED <<wvars, pvars, mvars>>
    \/ Finish /\ UNCHANGED <<wvars, pvars, mvars>>

SpecBetween == InitBetween /\ [][NextBetween]_vars

\* comp_within called on every treatment, control and tolerance within the bounds
InitWithin ==
    /\ \E s \in SeqsUpTo(Records, MaxWithinRecords), k \in 0..MaxWithinRecords :
        /\ k <= Len(s)
        /\ mutant_df = SubSeq(s, 1, k)
        /\ control_df = SubSeq(s, k + 1, Len(s))
    /\ dist \in WithinDists
    /\ wpc = "for_chrom"
    /\ c = 1
    /\ i = 0
    /\ j = 0
    /\ matched = FALSE
    /\ indices_to_drop = <<>>
    /\ w_ret = <<>>
    /\ BetweenIdle
    /\ distance = 0
    /\ agreement = 0
    /\ MainIdle

NextWithin ==
    \/ ForChrom /\ UNCHANGED <<bvars, pvars, mvars>>
    \/ ForRow /\ UNCHANGED <<bvars, pvars, mvars>>
    \/ While /\ UNCHANGED <<bvars, pvars, mvars>>

SpecWithin == InitWithin /\ [][NextWithin]_vars

----------------------------------------------------------------------------
(* __main__ *)

\* The names N2_df and GE_df hold [kind, method, df]: kind "unbound" before the
\* first assignment (reading the name raises NameError), "df" once a file's
\* DataFrame is assigned, with the method of the file it came from.  The None
\* of line 296 is assigned to n2_df and ge_df, two other names that are never
\* read, so kind "None" is tested (line 304) but never stored.
Unbound == [kind |-> "unbound", method |-> "", df |-> <<>>]

MainMethods == {"A", "B"}
Conditions == {"N2", "GE2722", "WT"}
FileDfs == {<<>>, <<[CHROM |-> "chr1", POS |-> 100]>>}

\* lines 297-301: the name after the loop over the files, for one condition
AfterFiles(old, fs, meth, cond) ==
    IF \E f \in fs : f.method = meth /\ f.condition = cond
    THEN LET f == CHOOSE g \in fs : g.method = meth /\ g.condition = cond
         IN  [kind |-> "df", method |-> f.method, df |-> f.df]
    ELSE old

\* lines 281-283: the parameters a run is stopped for
Rejected(fromArgv, d, a) == ~fromArgv /\ (d < 1 \/ a < 1)

\* lines 273-294: the parameters are read (argv or prompts), the files loaded
Parse ==
    /\ mpc = "start"
    /\ \E fromArgv \in BOOLEAN, d \in Distances, a \in Agreements :
        /\ cli' = fromArgv
        /\ distance' = d
        /\ agreement' = a
        /\ IF Rejected(fromArgv, d, a)
           THEN /\ mpc' = "exit(1)"
                /\ UNCHANGED methods
           ELSE /\ mpc' = "loop"
                /\ methods' = {f.method : f \in files}
    /\ UNCHANGED <<files, method, N2_df, GE_df, filtered_within, wvars, bvars>>

\* lines 295-308: one method of the set, in any order, up to the call of
\* comp_within
NextMethod ==
    /\ mpc = "loop"
    /\ \E meth \in methods :
        LET n2 == AfterFiles(N2_df, files, meth, "N2")
            ge == AfterFiles(GE_df, files, meth, "GE2722")
        IN  /\ method' = meth
            /\ methods' = methods \ {meth}
            /\ N2_df' = n2
            /\ GE_df' = ge
            /\ IF n2.kind = "unbound" \/ (n2.kind # "None" /\ ge.kind = "unbound")
               THEN /\ mpc' = "NameError"
                    /\ UNCHANGED wvars
               ELSE IF n2.kind = "None" \/ ge.kind = "None"
               THEN /\ mpc' = "loop"
                    /\ UNCHANGED wvars
               ELSE /\ mpc' = "comp_within"
                    /\ WithinEntry(ge.df, n2.df, distance)
    /\ UNCHANGED <<cli, files, filtered_within, pvars, bvars>>

\* line 308: the value comp_within returns is stored under the method
StoreFiltered ==
    /\ mpc = "comp_within"
    /\ wpc = "returned"
    /\ filtered_within' = Append(filtered_within, [method |-> method, df |-> w_ret])
    /\ mpc' = "loop"
    /\ wpc' = "idle"
    /\ UNCHANGED <<mutant_df, control_df, dist, c, i, j, matched, indices_to_drop, w_ret>>
    /\ UNCHANGED <<cli, files, methods, method, N2_df, GE_df, pvars, bvars>>

\* line 310: the loop over the methods is over, compare_between is called
CallCompareBetween ==
    /\ mpc = "loop"
    /\ methods = {}
    /\ BetweenEntry(filtered_within)
    /\ mpc' = "compare_between"
    /\ UNCHANGED <<cli, files, methods, method, N2_df, GE_df, filtered_within, pvars, wvars>>

\* lines 310-314: the consensus is printed and written
SaveConsensus ==
    /\ mpc = "compare_between"
    /\ bpc = "returned"
    /\ mpc' = "done"
    /\ UNCHANGED <<cli, files, methods, method, N2_df, GE_df, filtered_within>>
    /\ UNCHANGED <<pvars, wvars, bvars>>

\* a run on every set of loaded files within the bounds
InitMain ==
    /\ mpc = "start"
    /\ cli = FALSE
    /\ \E present \in SUBSET (MainMethods \X Conditions) :
        \E dfOf \in [present -> FileDfs] :
            files = {[method |-> p[1], condition |-> p[2], df |-> dfOf[p]] : p \in present}
    /\ methods = {}
    /\ method = ""
    /\ N2_df = Unbound
    /\ GE_df = Unbound
    /\ filtered_within = <<>>
    /\ distance = 0
    /\ agreement = 0
    /\ WithinIdle
    /\ BetweenIdle

NextMain ==
    \/ Parse
    \/ NextMethod
    \/ StoreFiltered
    \/ CallCompareBetween
    \/ SaveConsensus
    \/ ForChrom /\ UNCHANGED <<bvars, pvars, mvars>>
    \/ ForRow /\ UNCHANGED <<bvars, pvars, mvars>>
    \/ While /\ UNCHANGED <<bvars, pvars, mvars>>
    \/ ForMethod /\ UNCHANGED <<wvars, pvars, mvars>>
    \/ ForLeader /\ UNCHANGED <<wvars, pvars, mvars>>
    \/ Finish /\ UNCHANGED <<wvars, pvars, mvars>>

SpecMain == InitMain /\ [][NextMain]_vars

----------------------------------------------------------------------------
(* comp_within under the scheduling of a running call: it keeps stepping *)

SpecWithinFair == InitWithin /\ [][NextWithin]_vars /\ WF_vars(NextWithin)

----------------------------------------------------------------------------
(* Properties of compare_between *)

\* the columns of a row that hold a tuple
TupleCols(row) == {k \in 1..Len(row.cols) : row.cols[k] # NoMatch}

\* the positions stored in a row, over all its columns
RowPositions(row) ==
    UNION {{row.cols[x][y] : y \in 1..Len(row.cols[x])} : x \in 1..Len(row.cols)}

RECURSIVE RowSum(_, _)
RowSum(row, k) == IF k = 0 THEN 0 ELSE Sum(row.cols[k]) + RowSum(row, k - 1)

\* the methods holding at least one record on r's chromosome within d of r
Agreeing(dict, r, d) ==
    {k \in 1..Len(dict) :
        \E x \in 1..Len(dict[k].df) :
            /\ dict[k].df[x].CHROM = r.CHROM
            /\ r.POS - d <= dict[k].df[x].POS
            /\ dict[k].df[x].POS <= r.POS + d}

\* C1: a leader record is evaluated in one step, which appends exactly one row
\* to the consensus list when the number of methods (the leader's included)
\* holding at least one record on its chromosome within the distance of it is
\* >= agreement, and appends nothing otherwise; a method counts once however
\* many of its records match.
C1_RetainedIffAgreement ==
    [][(bpc = "for_leader" /\ li < Len(leader)) =>
        IF Cardinality(Agreeing(all_dict, leader[li + 1], distance)) >= agreement
        THEN /\ Len(consensus') = Len(consensus) + 1
             /\ SubSeq(consensus', 1, Len(consensus)) = consensus
             /\ consensus'[Len(consensus')].CHROM = leader[li + 1].CHROM
        ELSE consensus' = consensus]_vars

\* a row was retained on two methods' agreement, one of them matching twice
C1_Witness ==
    /\ bpc = "for_leader"
    /\ agreement = 2
    /\ \E k \in 1..Len(consensus) :
        /\ Cardinality(TupleCols(consensus[k])) = 2
        /\ \E x \in TupleCols(consensus[k]) : Len(consensus[k].cols[x]) = 2

\* C7: in the table compare_between returns, and in the list it builds, the
\* AVERAGE of a row is the sum of all the positions in the row's tuples divided
\* by the number of columns that hold a tuple, truncated to an integer.
C7_AverageIsTruncatedSumOverMethods ==
    \A rows \in {consensus, consensus_df} :
        \A k \in 1..Len(rows) :
            LET row == rows[k]
                n == Cardinality(TupleCols(row))
                total == RowSum(row, Len(row.cols))
            IN  n > 0 =>
                    /\ row.AVERAGE * n <= total
                    /\ total < (row.AVERAGE + 1) * n

\* a returned row whose sum is not a multiple of its number of tuples, one of
\* them holding two positions
C7_Witness ==
    /\ bpc = "returned"
    /\ \E k \in 1..Len(consensus_df) :
        LET row == consensus_df[k]
        IN  /\ Cardinality(TupleCols(row)) = 2
            /\ \E x \in TupleCols(row) : Len(row.cols[x]) = 2
            /\ RowSum(row, Len(row.cols)) % 2 = 1

\* the example of the specification: A, B and C with one record each
Example ==
    /\ all_dict = << [method |-> "A", df |-> <<[CHROM |-> "chr1", POS |-> 100]>>],
                     [method |-> "B", df |-> <<[CHROM |-> "chr1", POS |-> 105]>>],
                     [method |-> "C", df |-> <<[CHROM |-> "chr1", POS |-> 500]>>] >>
    /\ distance = 10
    /\ agreement = 2

ExampleRow ==
    [CHROM |-> "chr1", cols |-> << <<100>>, <<105>>, NoMatch >>, AVERAGE |-> 102]

\* C8 as stated: on the example the returned table holds two rows, the A-led
\* and the B-led, each with average 102.
C8_ExampleKeepsTwoRows ==
    (Example /\ bpc = "returned") =>
        /\ Len(consensus_df) = 2
        /\ \A k \in 1..Len(consensus_df) : consensus_df[k].AVERAGE = 102

\* C8 amended: on the example the A-led and the B-led rows are retained with
\* average 102 and the C-led row is dropped, the two retained rows are equal in
\* every column, and the returned table holds that row once.
C8_ExampleCollapsesToOneRow ==
    (Example /\ bpc = "returned") =>
        /\ consensus = <<ExampleRow, ExampleRow>>
        /\ consensus_df = <<ExampleRow>>

C8_Witness == Example /\ bpc = "returned"

\* C10 as stated: with distance >= 0 the AVERAGE of a retained row lies between
\* the smallest and the largest position stored in the row.
C10_AverageWithinRowPositions ==
    distance >= 0 =>
        \A k \in 1..Len(consensus) :
            /\ \E p \in RowPositions(consensus[k]) : p <= consensus[k].AVERAGE
            /\ \E p \in RowPositions(consensus[k]) : consensus[k].AVERAGE <= p

\* the second half of C6: every position in a row's tuple of column k is the
\* position of a record of method k on the row's chromosome
C6_TuplesFromRowChromosome ==
    \A k \in 1..Len(consensus) :
        \A x \in 1..Len(consensus[k].cols) :
            \A y \in 1..Len(consensus[k].cols[x]) :
                \E z \in 1..Len(all_dict[x].df) :
                    /\ all_dict[x].df[z].CHROM = consensus[k].CHROM
                    /\ all_dict[x].df[z].POS = consensus[k].cols[x][y]

----------------------------------------------------------------------------
(* Properties of comp_within *)

\* a control record on the row's chromosome within d of the row
HasControlMatch(r, ctl, d) ==
    \E x \in 1..Len(ctl) :
        /\ ctl[x].CHROM = r.CHROM
        /\ r.POS - d <= ctl[x].POS
        /\ ctl[x].POS <= r.POS + d

\* C4 as stated: the call-set returned holds exactly the treatment rows with no
\* control record on their chromosome within dist, in their order.
C4_MatchedRowsRemoved ==
    wpc = "returned" =>
        w_ret = SelectSeq(mutant_df, LAMBDA r : ~HasControlMatch(r, control_df, dist))

C6_SameChromosomeOnly ==
    /\ (wpc = "while" /\ j < Len(control_df_chrom) /\ matched = FALSE) =>
            control_df_chrom[j + 1].CHROM = mutant_df[i + 1].CHROM
    /\ C6_TuplesFromRowChromosome

WithinErrors == {"ValueError", "IndexError"}

\* C9 as stated: for a tolerance >= 0 the call raises no error.
C9_NoErrorForNonNegativeTolerance ==
    dist >= 0 => wpc \notin WithinErrors

\* C9 amended: for a tolerance >= 1, and for tolerance 0 with an empty
\* treatment, the call raises no error and returns; while the control subset of
\* the chromosome in hand is empty no row is matched; an empty treatment is
\* returned without a row being scanned.
C9_NoErrorForPositiveTolerance ==
    /\ [](dist >= 1 \/ mutant_df = <<>> => wpc \notin WithinErrors)
    /\ (dist >= 1 \/ mutant_df = <<>> => <>(wpc = "returned"))
    /\ []((wpc = "while" /\ control_df_chrom = <<>>) => matched = FALSE)
    /\ [](mutant_df = <<>> => wpc \in {"for_chrom", "returned"})

\* the call returned after scanning a row of a chromosome that has no control
\* record, with a tolerance >= 1
C9_Witness ==
    /\ wpc = "returned"
    /\ dist >= 1
    /\ \E x \in 1..Len(mutant_df) : ChromFilter(control_df, mutant_df[x].CHROM) = <<>>
    /\ control_df # <<>>

----------------------------------------------------------------------------
(* Properties of the driver *)

HasFile(meth, cond) == \E f \in files : f.method = meth /\ f.condition = cond

Unpaired(meth) == ~HasFile(meth, "GE2722") \/ ~HasFile(meth, "N2")

\* C2 as stated, for a run with valid parameters: the run never aborts in the
\* loop over the methods, and a method lacking its treatment or its control
\* call-set gets no entry in filtered_within and no call of comp_within (so none
\* with another method's call-set).
C2_UnpairedMethodSkipped ==
    (distance >= 1 /\ agreement >= 1) =>
        /\ mpc # "NameError"
        /\ \A meth \in {f.method : f \in files} :
            Unpaired(meth) =>
                /\ \A k \in 1..Len(filtered_within) : filtered_within[k].method # meth
                /\ ~(mpc = "comp_within" /\ method = meth)

\* C3 as stated: neither comp_within nor compare_between is entered with a
\* distance or an agreement < 1.
C3_CoreNeedsPositiveParameters ==
    (wpc # "idle" \/ bpc # "idle") => (distance >= 1 /\ agreement >= 1)

====
